---- MODULE Spec2Model ----
(***************************************************************************)
(* Model of src/noise/noises/perlin.rs: the 3D Perlin noise generator.     *)
(*                                                                         *)
(* Numbers.  An f32 is modelled by the exact rational it holds, a pair     *)
(* <<n, d>> in lowest terms with d > 0.  The inputs and the parameters of  *)
(* the model are dyadic (quarters on the x axis, halves on y and z, and    *)
(* frequency and lacunarity in {1, 2}), so every f32 operation of          *)
(* generate_noise and of the octave loop is exact in binary32; only the    *)
(* quotient value / total_amplitude can need rounding, and the model keeps *)
(* it exact.                                                               *)
(*                                                                         *)
(* uint is modelled UintBits wide: arithmetic on it wraps modulo           *)
(* 2^UintBits, as the target's does modulo 2^32 or 2^64.                   *)
(***************************************************************************)
EXTENDS Integers, Sequences, FiniteSets

\* ------------------------------------------------------------- bounds

\* Width of uint in the model.
UintBits == 16

\* The largest octave count set through set_octave_count, besides UintMax.
MaxOctaves == 3

\* The number of threads that may hold the generator.
NThreads == 2

RECURSIVE Pow2(_)
Pow2(k) == IF k = 0 THEN 1 ELSE 2 * Pow2(k - 1)

UintModulus == Pow2(UintBits)

UintMax == UintModulus - 1

\* ------------------------------------------------------------- f32 values

RECURSIVE Gcd(_, _)
Gcd(a, b) == IF b = 0 THEN a ELSE Gcd(b, a % b)

IAbs(n) == IF n < 0 THEN -n ELSE n

Norm(n, d) ==
    LET s == IF d < 0 THEN -1 ELSE 1
        g == Gcd(IAbs(n), IAbs(d))
    IN  <<(s * n) \div g, (s * d) \div g>>

R(n) == <<n, 1>>

Zero == R(0)

One == R(1)

Add(a, b) ==
    LET g == Gcd(a[2], b[2])
    IN  Norm(a[1] * (b[2] \div g) + b[1] * (a[2] \div g), (a[2] \div g) * b[2])

Neg(a) == <<-a[1], a[2]>>

Sub(a, b) == Add(a, Neg(b))

Mul(a, b) ==
    LET g1 == Gcd(IAbs(a[1]), b[2])
        g2 == Gcd(IAbs(b[1]), a[2])
    IN  Norm((a[1] \div g1) * (b[1] \div g2), (a[2] \div g2) * (b[2] \div g1))

\* a / b, for b # 0 (the code divides only a value of magnitude above 1,
\* which needs at least one octave, hence a positive total_amplitude here).
Div(a, b) == Mul(a, Norm(b[2], b[1]))

Abs(a) == <<IAbs(a[1]), a[2]>>

\* a > b
Gt(a, b) == Sub(a, b)[1] > 0

\* a <= b
Le(a, b) == Sub(a, b)[1] <= 0

\* x.floor(), as an integer (x >= 0 in the model)
Floor(a) == a[1] \div a[2]

\* x.floor() as uint.  Every coordinate the model reaches is below
\* 2^UintBits, where the cast is defined.
FloorAsUint(a) == Floor(a) % UintModulus

\* ------------------------------------------------------------- uint

RECURSIVE BitAnd(_, _)
BitAnd(a, b) ==
    IF a = 0 \/ b = 0 THEN 0
    ELSE (a % 2) * (b % 2) + 2 * BitAnd(a \div 2, b \div 2)

\* uint addition
UAdd(a, b) == (a + b) % UintModulus

\* ------------------------------------------------------------- P

P == <<
    151,  160,  137,  91,   90,   15,   131,  13,   201,  95,
    96,   53,   194,  233,  7,    225,  140,  36,   103,  30,
    69,   142,  8,    99,   37,   240,  21,   10,   23,   190,
    6,    148,  247,  120,  234,  75,   0,    26,   197,  62,
    94,   252,  219,  203,  117,  35,   11,   32,   57,   177,
    33,   88,   237,  149,  56,   87,   174,  20,   125,  136,
    171,  168,  68,   175,  74,   165,  71,   134,  139,  48,
    27,   166,  77,   146,  158,  231,  83,   111,  229,  122,
    60,   211,  133,  230,  220,  105,  92,   41,   55,   46,
    245,  40,   244,  102,  143,  54,   65,   25,   63,   161,
    1,    216,  80,   73,   209,  76,   132,  187,  208,  89,
    18,   169,  200,  196,  135,  130,  116,  188,  159,  86,
    164,  100,  109,  198,  173,  186,  3,    64,   52,   217,
    226,  250,  124,  123,  5,    202,  38,   147,  118,  126,
    255,  82,   85,   212,  207,  206,  59,   227,  47,   16,
    58,   17,   182,  189,  28,   42,   223,  183,  170,  213,
    119,  248,  152,  2,    44,   154,  163,  70,   221,  153,
    101,  155,  167,  43,   172,  9,    129,  22,   39,   253,
    19,   98,   108,  110,  79,   113,  224,  232,  178,  185,
    112,  104,  218,  246,  97,   228,  251,  34,   242,  193,
    238,  210,  144,  12,   191,  179,  162,  241,  81,   51,
    145,  235,  249,  14,   239,  107,  49,   192,  214,  31,
    181,  199,  106,  157,  184,  84,   204,  176,  115,  121,
    50,   45,   127,  4,    150,  254,  138,  236,  205,  93,
    222,  114,  67,   29,   24,   72,   243,  141,  128,  195,
    78,   66,   215,  61,   156,  180 >>

\* The index expression  e & 0xFF  of every read of P.
HashIndexUnmasked(e) == e
HashIndex(e) == BitAnd(e, 255)

\* P[i]: the table is 0-based in the source.  An index outside the table
\* panics there; the model reads 0 and the index stays in the record of
\* reads.
ReadP(i) == IF i \in 0..(Len(P) - 1) THEN P[i + 1] ELSE 0

\* ------------------------------------------------------------- kernel

fade(t) ==
    Mul(Mul(Mul(t, t), t), Add(Mul(t, Sub(Mul(t, R(6)), R(15))), R(10)))

lerpSwapped(t, a, b) == Add(b, Mul(t, Sub(a, b)))
lerp(t, a, b) == Add(a, Mul(t, Sub(b, a)))

gradWrongAxis(hash, x, y, z) ==
    LET h == BitAnd(hash, 15)
        u == IF h < 8 THEN x ELSE y
        v == IF h < 4 THEN y ELSE IF h = 12 \/ h = 13 THEN x ELSE z
    IN  Add(IF BitAnd(h, 1) = 0 THEN u ELSE Neg(u),
            IF BitAnd(h, 2) = 0 THEN v ELSE Neg(v))
grad(hash, x, y, z) ==
    LET h == BitAnd(hash, 15)
        u == IF h < 8 THEN x ELSE y
        v == IF h < 4 THEN y ELSE IF h = 12 \/ h = 14 THEN x ELSE z
    IN  Add(IF BitAnd(h, 1) = 0 THEN u ELSE Neg(u),
            IF BitAnd(h, 2) = 0 THEN v ELSE Neg(v))

\* generate_noise(x, y, z).  The record holds the value returned (noise)
\* and what the evaluation went through: the cell, the three weights, the
\* indices at which P was read, and per corner the hash, the offset and the
\* gradient value.
generate_noise(x0, y0, z0) ==
    LET int_x == FloorAsUint(x0)
        int_y == FloorAsUint(y0)
        int_z == FloorAsUint(z0)
        x == Sub(x0, R(Floor(x0)))
        y == Sub(y0, R(Floor(y0)))
        z == Sub(z0, R(Floor(z0)))
        u == fade(x)
        v == fade(y)
        w == fade(z)
        ia  == HashIndex(int_x)
        a   == UAdd(ReadP(ia), int_y)
        iaa == HashIndex(a)
        aa  == UAdd(ReadP(iaa), int_z)
        iab == HashIndex(UAdd(a, 1))
        ab  == UAdd(ReadP(iab), int_z)
        ib  == HashIndex(UAdd(int_x, 1))
        b   == UAdd(ReadP(ib), int_y)
        iba == HashIndex(b)
        ba  == UAdd(ReadP(iba), int_z)
        ibb == HashIndex(UAdd(b, 1))
        bb  == UAdd(ReadP(ibb), int_z)
        x1 == Sub(x, One)
        y1 == Sub(y, One)
        z1 == Sub(z, One)
        idx == << HashIndex(aa), HashIndex(ba), HashIndex(ab), HashIndex(bb),
                  HashIndex(UAdd(aa, 1)), HashIndex(UAdd(ba, 1)),
                  HashIndex(UAdd(ab, 1)), HashIndex(UAdd(bb, 1)) >>
        off == << <<x, y, z>>,   <<x1, y, z>>,  <<x, y1, z>>,  <<x1, y1, z>>,
                  <<x, y, z1>>,  <<x1, y, z1>>, <<x, y1, z1>>, <<x1, y1, z1>> >>
        g == [c \in 1..8 |->
                 grad(ReadP(idx[c]), off[c][1], off[c][2], off[c][3])]
    IN  [ noise |->
              lerp(w,
                  lerp(v, lerp(u, g[1], g[2]), lerp(u, g[3], g[4])),
                  lerp(v, lerp(u, g[5], g[6]), lerp(u, g[7], g[8]))),
          cell |-> <<int_x, int_y, int_z>>,
          weights |-> <<u, v, w>>,
          reads |-> {ia, iaa, iab, ib, iba, ibb} \cup {idx[c] : c \in 1..8},
          corners |-> [c \in 1..8 |->
                          [hash |-> ReadP(idx[c]), off |-> off[c], g |-> g[c]]] ]

\* ------------------------------------------------------------- Perlin

\* Perlin::new()
new ==
    [ octave_count |-> 6,
      frequency    |-> R(1),
      persistence  |-> <<1, 2>>,
      lacuranity   |-> R(2) ]

set_octave_count(self, n) == [self EXCEPT !.octave_count = n]

set_frequency_dropped(self, frequency) == self
set_frequency(self, frequency) == [self EXCEPT !.frequency = frequency]

set_persistence_as_lacuranity(self, persistence) ==
    [self EXCEPT !.lacuranity = persistence]
set_persistence(self, persistence) == [self EXCEPT !.persistence = persistence]

set_lacuranity(self, lacuranity) == [self EXCEPT !.lacuranity = lacuranity]

\* Perlin::get_value takes &self: no statement of it assigns a field.
get_value_decays_self(self, cur_persistence) ==
    [self EXCEPT !.persistence = cur_persistence]
get_value_self(self, cur_persistence) == self

\* The number of iterations of  for _ in range(1, self.octave_count + 1).
LoopCount(octave_count) ==
    LET stop == UAdd(octave_count, 1)
    IN  IF stop > 1 THEN stop - 1 ELSE 0

NoKernel ==
    [ noise |-> Zero, cell |-> <<0, 0, 0>>, weights |-> <<Zero, Zero, Zero>>,
      reads |-> {}, corners |-> <<>>, at |-> <<Zero, Zero, Zero>>,
      amplitude |-> Zero ]

\* The locals of a call of get_value that has not started or has ended.
NoFrame ==
    [ args |-> <<Zero, Zero, Zero>>, cfg |-> new,
      x |-> Zero, y |-> Zero, z |-> Zero,
      value |-> Zero, cur_persistence |-> Zero, total_amplitude |-> Zero,
      i |-> 0, stop |-> 0, iters |-> 0, raw |-> Zero, kernel |-> NoKernel ]

\* get_value, lines 140-157: the locals as the loop is entered.  cfg (the
\* configuration the calls so far have asked for), iters, raw and kernel
\* are history, not locals of the code.
get_value_enter_from_zero(self, cfg, X, Y, Z) ==
    [ args |-> <<X, Y, Z>>, cfg |-> cfg,
      x |-> Mul(X, self.frequency),
      y |-> Mul(Y, self.frequency),
      z |-> Mul(Z, self.frequency),
      value |-> Zero, cur_persistence |-> One, total_amplitude |-> Zero,
      i |-> 0, stop |-> UAdd(self.octave_count, 1),
      iters |-> 0, raw |-> Zero, kernel |-> NoKernel ]
get_value_enter(self, cfg, X, Y, Z) ==
    [ args |-> <<X, Y, Z>>, cfg |-> cfg,
      x |-> Mul(X, self.frequency),
      y |-> Mul(Y, self.frequency),
      z |-> Mul(Z, self.frequency),
      value |-> Zero, cur_persistence |-> One, total_amplitude |-> Zero,
      i |-> 1, stop |-> UAdd(self.octave_count, 1),
      iters |-> 0, raw |-> Zero, kernel |-> NoKernel ]

\* get_value, lines 158-165: one iteration of the octave loop.
octave(self, f) ==
    LET k == generate_noise(f.x, f.y, f.z)
    IN  [ f EXCEPT
            !.value = Add(f.value, Mul(k.noise, f.cur_persistence)),
            !.x = Mul(f.x, self.lacuranity),
            !.y = Mul(f.y, self.lacuranity),
            !.z = Mul(f.z, self.lacuranity),
            !.total_amplitude = Add(f.total_amplitude, f.cur_persistence),
            !.cur_persistence = Mul(f.cur_persistence, self.persistence),
            !.i = f.i + 1,
            !.iters = f.iters + 1,
            !.kernel = [ noise |-> k.noise, cell |-> k.cell,
                         weights |-> k.weights, reads |-> k.reads,
                         corners |-> k.corners, at |-> <<f.x, f.y, f.z>>,
                         amplitude |-> f.cur_persistence ] ]

\* get_value, lines 167-170: normalize if necessary.
normalize_always(f) ==
    [ f EXCEPT !.raw = f.value,
               !.value = IF f.total_amplitude = Zero THEN f.value
                         ELSE Div(f.value, f.total_amplitude) ]
normalize(f) ==
    [ f EXCEPT !.raw = f.value,
               !.value = IF Gt(Abs(f.value), One)
                         THEN Div(f.value, f.total_amplitude)
                         ELSE f.value ]

\* debug_assert!(value.abs() <= 1.0)
assert_holds(f) == Le(Abs(f.value), One)

\* ------------------------------------------------------------- inputs

\* Coordinates passed to get_value: quarters on x, halves on y and z.
XCoords == { R(0), R(3), <<49, 4>> }

YCoords == { R(0), <<375, 2>> }

ZCoords == { R(0), <<11, 2>> }

\* Coordinates the threads that share the generator pass.
SharedXCoords == { R(3), <<49, 4>> }

SharedYCoords == { <<375, 2>> }

SharedZCoords == { <<11, 2>> }

OctaveCounts == 0..MaxOctaves \cup {UintMax}

Frequencies == { R(1), R(2) }

Lacunarities == { R(1), R(2) }

Persistences == { <<1, 2>>, <<1, 4>> }

Threads == 1..NThreads

\* The thread that constructs the generator and, until it is shared, owns it.
Owner == CHOOSE t \in Threads : \A u \in Threads : t <= u

\* ------------------------------------------------------------- state

VARIABLES
    self,       \* the generator: the four fields of struct Perlin
    expected,   \* history: per field, the argument of the last call of its
                \* setter, or the default of new()
    shared,     \* whether the generator is behind a shared reference
    pc,         \* per thread: where it is in get_value
    frame,      \* per thread: the locals of its call of get_value
    ret         \* per thread: <<>>, or the last call that returned

vars == <<self, expected, shared, pc, frame, ret>>

Init ==
    /\ self = new
    /\ expected = [ octave_count |-> 6, frequency |-> R(1),
                    lacuranity |-> R(2), persistence |-> <<1, 2>> ]
    /\ shared = FALSE
    /\ pc = [t \in Threads |-> "idle"]
    /\ frame = [t \in Threads |-> NoFrame]
    /\ ret = [t \in Threads |-> <<>>]

\* A setter takes &mut self: it runs only while the generator is not shared
\* and no call of get_value (which borrows &self) is in progress.
Exclusive == ~shared /\ \A t \in Threads : pc[t] = "idle"

SetOctaveCount(n) ==
    /\ Exclusive
    /\ self' = set_octave_count(self, n)
    /\ expected' = [expected EXCEPT !.octave_count = n]
    /\ UNCHANGED <<shared, pc, frame, ret>>

SetFrequency(f) ==
    /\ Exclusive
    /\ self' = set_frequency(self, f)
    /\ expected' = [expected EXCEPT !.frequency = f]
    /\ UNCHANGED <<shared, pc, frame, ret>>

SetPersistence(p) ==
    /\ Exclusive
    /\ self' = set_persistence(self, p)
    /\ expected' = [expected EXCEPT !.persistence = p]
    /\ UNCHANGED <<shared, pc, frame, ret>>

SetLacuranity(l) ==
    /\ Exclusive
    /\ self' = set_lacuranity(self, l)
    /\ expected' = [expected EXCEPT !.lacuranity = l]
    /\ UNCHANGED <<shared, pc, frame, ret>>

\* The owner hands the generator to the other threads behind a shared
\* reference (&Perlin): from here on only get_value, which takes &self, can
\* be called.
Share ==
    /\ Exclusive
    /\ \A t \in Threads : ret[t] = <<>>
    /\ shared' = TRUE
    /\ UNCHANGED <<self, expected, pc, frame, ret>>

\* get_value is entered: lines 138-157.
Call(t, X, Y, Z) ==
    /\ pc[t] = "idle"
    /\ shared \/ t = Owner
    /\ pc' = [pc EXCEPT ![t] = "loop"]
    /\ frame' = [frame EXCEPT ![t] = get_value_enter(self, expected, X, Y, Z)]
    /\ ret' = [ret EXCEPT ![t] = <<>>]
    /\ self' = get_value_self(self, One)
    /\ UNCHANGED <<expected, shared>>

\* One iteration of the octave loop: lines 157-166.
Octave(t) ==
    /\ pc[t] = "loop"
    /\ frame[t].i < frame[t].stop
    /\ frame' = [frame EXCEPT ![t] = octave(self, frame[t])]
    /\ self' = get_value_self(self, frame'[t].cur_persistence)
    /\ UNCHANGED <<expected, shared, pc, ret>>

\* The loop is left and the value normalized: lines 166-170.
Normalize(t) ==
    /\ pc[t] = "loop"
    /\ ~(frame[t].i < frame[t].stop)
    /\ frame' = [frame EXCEPT ![t] = normalize(frame[t])]
    /\ pc' = [pc EXCEPT ![t] = "assert"]
    /\ self' = get_value_self(self, frame[t].cur_persistence)
    /\ UNCHANGED <<expected, shared, ret>>

\* The assertion holds and the value is returned: lines 171-173.
Return(t) ==
    /\ pc[t] = "assert"
    /\ assert_holds(frame[t])
    /\ ret' = [ret EXCEPT ![t] =
                  << [ args |-> frame[t].args, cfg |-> frame[t].cfg,
                       value |-> frame[t].value, raw |-> frame[t].raw,
                       iters |-> frame[t].iters,
                       total_amplitude |-> frame[t].total_amplitude ] >>]
    /\ frame' = [frame EXCEPT ![t] = NoFrame]
    /\ pc' = [pc EXCEPT ![t] = "idle"]
    /\ UNCHANGED <<self, expected, shared>>

\* The assertion fails: the thread panics (line 171).
AssertFail(t) ==
    /\ pc[t] = "assert"
    /\ ~assert_holds(frame[t])
    /\ pc' = [pc EXCEPT ![t] = "panicked"]
    /\ UNCHANGED <<self, expected, shared, frame, ret>>

\* One thread: the owner configures the generator and calls get_value.
Next ==
    \/ \E n \in OctaveCounts : SetOctaveCount(n)
    \/ \E f \in Frequencies : SetFrequency(f)
    \/ \E p \in Persistences : SetPersistence(p)
    \/ \E l \in Lacunarities : SetLacuranity(l)
    \/ \E X \in XCoords, Y \in YCoords, Z \in ZCoords : Call(Owner, X, Y, Z)
    \/ Octave(Owner)
    \/ Normalize(Owner)
    \/ Return(Owner)
    \/ AssertFail(Owner)

Spec == Init /\ [][Next]_vars

\* The owner configures the generator (here its octave count and its
\* persistence), then shares it, and the threads call get_value at the same
\* time.
NextShared ==
    \/ \E n \in OctaveCounts : SetOctaveCount(n)
    \/ \E p \in Persistences : SetPersistence(p)
    \/ Share
    \/ \E t \in Threads :
          \/ /\ shared
             /\ \E X \in SharedXCoords, Y \in SharedYCoords, Z \in SharedZCoords :
                   Call(t, X, Y, Z)
          \/ Octave(t)
          \/ Normalize(t)
          \/ Return(t)
          \/ AssertFail(t)

SpecShared == Init /\ [][NextShared]_vars

\* ------------------------------------------------------------- claims

IsInt(a) == a[2] = 1

InUnitInterval(p) == Gt(p, Zero) /\ Gt(One, p)

\* The calls that have returned.
Returned == { ret[t][1] : t \in { u \in Threads : ret[u] # <<>> } }

\* The threads inside get_value that have evaluated an octave.
Evaluating == { t \in Threads : pc[t] # "idle" /\ frame[t].iters >= 1 }

\* The threads that have left the octave loop.
PastLoop == { t \in Threads : pc[t] \in {"assert", "panicked"} }

\* a^k
RECURSIVE Pow(_, _)
Pow(a, k) == IF k = 0 THEN One ELSE Mul(a, Pow(a, k - 1))

\* 1 + p + ... + p^(n-1)
RECURSIVE GeoSum(_, _)
GeoSum(p, n) == IF n = 0 THEN Zero ELSE Add(GeoSum(p, n - 1), Pow(p, n - 1))

\* The kernel at (X, Y, Z) scaled by frequency * lacunarity^k.
KernelAt(cfg, args, k) ==
    LET s == Mul(cfg.frequency, Pow(cfg.lacuranity, k))
    IN  generate_noise(Mul(args[1], s), Mul(args[2], s), Mul(args[3], s)).noise

\* The weighted sum of the first n octaves.
RECURSIVE SumOctaves(_, _, _)
SumOctaves(cfg, args, n) ==
    IF n = 0 THEN Zero
    ELSE Add(SumOctaves(cfg, args, n - 1),
             Mul(Pow(cfg.persistence, n - 1), KernelAt(cfg, args, n - 1)))

\* What get_value returns under configuration cfg: the sum of the octaves
\* the loop runs, divided by the total amplitude when its magnitude is above 1.
GetValueRef(cfg, args) ==
    LET n == LoopCount(cfg.octave_count)
        raw == SumOctaves(cfg, args, n)
    IN  IF Gt(Abs(raw), One) THEN Div(raw, GeoSum(cfg.persistence, n)) ELSE raw

\* get_value run alone on generator g: the steps of the call, one after the
\* other.
RECURSIVE RunLoop(_, _)
RunLoop(g, f) == IF f.i < f.stop THEN RunLoop(g, octave(g, f)) ELSE normalize(f)

RunAlone(g, args) ==
    RunLoop(g, get_value_enter(g, g, args[1], args[2], args[3])).value

\* C1: with octave_count >= 1 and persistence strictly between 0 and 1, the
\* value get_value is about to return has magnitude at most 1: the
\* debug_assert at the end of get_value never fails.
C1_AssertNeverFails ==
    \A t \in Threads :
        ( /\ pc[t] \in {"assert", "panicked"}
          /\ self.octave_count >= 1
          /\ InUnitInterval(self.persistence) )
        => /\ Le(Abs(frame[t].value), One)
           /\ pc[t] # "panicked"

\* C2: a setter call leaves the values get_value has returned as they are,
\* and every call that returns has computed its value with the arguments of
\* the latest calls of the four setters (or the defaults).
C2_SettersAffectLaterCallsOnly ==
    [][ /\ (expected' # expected) => (ret' = ret)
        /\ \A t \in Threads :
              (ret'[t] # ret[t] /\ ret'[t] # <<>>)
              => ret'[t][1].value = GetValueRef(expected, ret'[t][1].args) ]_vars

\* C2 witness: a call made after setter calls has returned a non-zero
\* value, and a setter has been called since.
C2_Witness ==
    /\ ret[Owner] # <<>>
    /\ ret[Owner][1].cfg # new
    /\ ret[Owner][1].cfg.frequency # expected.frequency
    /\ ret[Owner][1].cfg.octave_count # expected.octave_count
    /\ ret[Owner][1].value # Zero

\* C3: each field holds the argument of the last call of its own setter, or
\* its default 6, 1.0, 2.0, 0.5 when that setter was never called.
C3_FieldsFollowOwnSetter ==
    /\ self.octave_count = expected.octave_count
    /\ self.frequency = expected.frequency
    /\ self.lacuranity = expected.lacuranity
    /\ self.persistence = expected.persistence

\* C3 witness: octave_count and persistence have been set, frequency and
\* lacunarity never, and get_value has returned.
C3_Witness ==
    /\ ret[Owner] # <<>>
    /\ self.octave_count = 2
    /\ self.persistence = <<1, 4>>
    /\ self.frequency = R(1)
    /\ self.lacuranity = R(2)
    /\ ret[Owner][1].cfg = self

\* C4: while the generator is shared, each call of get_value returns what
\* the same call returns when run alone, whatever the interleaving, and the
\* four fields are unchanged.
C4_ConcurrentCallsAsAlone ==
    [][ shared =>
          /\ self' = self
          /\ \A t \in Threads :
                (ret'[t] # ret[t] /\ ret'[t] # <<>>)
                => ret'[t][1].value = RunAlone(self, ret'[t][1].args) ]_vars

\* C4 witness: on a reconfigured shared generator, a thread has returned
\* while another is between two octaves of its own call.
C4_Witness ==
    /\ shared
    /\ self # new
    /\ \E t \in Threads, u \in Threads :
          /\ t # u
          /\ ret[t] # <<>>
          /\ ret[t][1].value # Zero
          /\ pc[u] = "loop"
          /\ frame[u].iters >= 1
          /\ frame[u].i < frame[u].stop
          /\ frame[u].args # ret[t][1].args

\* lookup(i) of the specification: P at the low 8 bits of i.
Lookup(i) == P[(i % 256) + 1]

\* The hash of the lattice corner (ix, iy, iz).
CornerHash(ix, iy, iz) == Lookup(Lookup(Lookup(ix) + iy) + iz)

\* C5: at integer coordinates the three weights are 0 and the kernel returns
\* the gradient contribution of the corner at that point, grad(hash, 0, 0, 0);
\* so does get_value with octave_count = 1 and frequency 1; and with the
\* default configuration get_value(0, 0, 0) is the constant 0.
C5_LatticePointValue ==
    /\ \A t \in Evaluating :
          LET k == frame[t].kernel
          IN  (IsInt(k.at[1]) /\ IsInt(k.at[2]) /\ IsInt(k.at[3]))
              => /\ k.weights = <<Zero, Zero, Zero>>
                 /\ k.noise = grad(CornerHash(k.at[1][1], k.at[2][1], k.at[3][1]),
                                   Zero, Zero, Zero)
                 /\ k.noise = k.corners[1].g
    /\ \A r \in Returned :
          /\ ( /\ r.cfg.octave_count = 1
               /\ r.cfg.frequency = One
               /\ IsInt(r.args[1]) /\ IsInt(r.args[2]) /\ IsInt(r.args[3]) )
             => r.value = grad(CornerHash(r.args[1][1], r.args[2][1], r.args[3][1]),
                               Zero, Zero, Zero)
          /\ (r.cfg = new /\ r.args = <<Zero, Zero, Zero>>) => r.value = Zero

\* C5 witness: get_value(3, 0, 0) has returned with octave_count = 1 and
\* frequency 1.
C5_Witness ==
    /\ ret[Owner] # <<>>
    /\ ret[Owner][1].cfg.octave_count = 1
    /\ ret[Owner][1].cfg.frequency = One
    /\ ret[Owner][1].args = <<R(3), Zero, Zero>>
    /\ ret[Owner][1].iters = 1

\* C6: P has 256 entries, each in 0..255 and each value once, and every
\* read of P in the single-octave evaluation is at an index in 0..255.
C6_TableReadsInBounds ==
    \A t \in Evaluating :
        /\ Len(P) = 256
        /\ \A i \in 1..Len(P) : P[i] \in 0..255
        /\ Cardinality({ P[i] : i \in 1..Len(P) }) = 256
        /\ Cardinality(frame[t].kernel.reads) <= 14
        /\ frame[t].kernel.reads \subseteq 0..255

\* C6 witness: the kernel has been evaluated in a cell whose coordinates
\* exceed 255 on two axes.
C6_Witness ==
    \E t \in Evaluating :
        /\ frame[t].kernel.cell[1] > 255
        /\ frame[t].kernel.cell[2] > 255
        /\ Cardinality(frame[t].kernel.reads) > 8

\* C7: get_value returns the weighted sum of the octaves unchanged when its
\* magnitude is at most 1, and otherwise that sum divided by
\* 1 + p + ... + p^(n-1).
C7_NormalizeOnlyAboveOne ==
    /\ \A t \in PastLoop :
          LET raw == SumOctaves(self, frame[t].args, frame[t].iters)
          IN  /\ frame[t].raw = raw
              /\ frame[t].total_amplitude = GeoSum(self.persistence, frame[t].iters)
              /\ frame[t].value =
                     IF Le(Abs(raw), One) THEN raw
                     ELSE Div(raw, GeoSum(self.persistence, self.octave_count))
    /\ \A r \in Returned :
          r.value = IF Le(Abs(r.raw), One) THEN r.raw
                    ELSE Div(r.raw, GeoSum(r.cfg.persistence, r.cfg.octave_count))

\* C7 witness: a call of three octaves whose sum exceeded 1 has returned the
\* sum divided by the total amplitude.
C7_Witness ==
    /\ ret[Owner] # <<>>
    /\ ret[Owner][1].cfg.octave_count = 3
    /\ Gt(Abs(ret[Owner][1].raw), One)
    /\ ret[Owner][1].value # ret[Owner][1].raw
    /\ ret[Owner][1].total_amplitude # One

\* C8: the octave loop ends after exactly octave_count iterations, and
\* iteration k evaluates the kernel at the input scaled by
\* frequency * lacunarity^k and adds it with amplitude persistence^k.
C8_LoopRunsOctaveCountTimes ==
    /\ \A t \in PastLoop : frame[t].iters = self.octave_count
    /\ \A r \in Returned : r.iters = r.cfg.octave_count
    /\ \A t \in Evaluating :
          LET k == frame[t].iters - 1
              s == Mul(self.frequency, Pow(self.lacuranity, k))
          IN  /\ frame[t].kernel.at = << Mul(frame[t].args[1], s),
                                         Mul(frame[t].args[2], s),
                                         Mul(frame[t].args[3], s) >>
              /\ frame[t].kernel.amplitude = Pow(self.persistence, k)

\* C9: with octave_count = 0 get_value runs no octave, leaves value and
\* total_amplitude at 0, does not divide, and returns 0.
C9_ZeroOctavesReturnZero ==
    /\ \A r \in Returned :
          r.cfg.octave_count = 0
          => /\ r.value = Zero
             /\ r.raw = Zero
             /\ r.total_amplitude = Zero
             /\ r.iters = 0
    /\ \A t \in Threads :
          (pc[t] # "idle" /\ self.octave_count = 0)
          => /\ frame[t].iters = 0
             /\ frame[t].value = Zero
             /\ frame[t].total_amplitude = Zero
             /\ pc[t] # "panicked"

\* C9 witness: with octave_count = 0, frequency 2 and persistence 1/4,
\* get_value(12.25, 187.5, 5.5) has returned.
C9_Witness ==
    /\ ret[Owner] # <<>>
    /\ ret[Owner][1].cfg.octave_count = 0
    /\ ret[Owner][1].cfg.frequency = R(2)
    /\ ret[Owner][1].cfg.persistence = <<1, 4>>
    /\ ret[Owner][1].args = << <<49, 4>>, <<375, 2>>, <<11, 2>> >>

\* The gradient direction of each h = 0..15, as the claim's formula gives it.
GradVectors ==
    << <<1, 1, 0>>,  <<-1, 1, 0>>,  <<1, -1, 0>>,  <<-1, -1, 0>>,
       <<1, 0, 1>>,  <<-1, 0, 1>>,  <<1, 0, -1>>,  <<-1, 0, -1>>,
       <<0, 1, 1>>,  <<0, -1, 1>>,  <<0, 1, -1>>,  <<0, -1, -1>>,
       <<1, 1, 0>>,  <<0, -1, 1>>,  <<-1, 1, 0>>,  <<0, -1, -1>> >>

Dot(d, off) ==
    Add(Add(Mul(R(d[1]), off[1]), Mul(R(d[2]), off[2])), Mul(R(d[3]), off[3]))

\* C10: grad depends on hash only through h = hash & 15 and is the sum of
\* the signed u and v components the claim describes, which are 12 distinct
\* directions over the 16 values of h.
C10_GradTwelveDirections ==
    /\ \A t \in Evaluating :
          \A c \in 1..8 :
              LET k == frame[t].kernel.corners[c]
              IN  k.g = Dot(GradVectors[(k.hash % 16) + 1], k.off)
    /\ (Evaluating # {}) =>
          /\ \A hash \in 0..47 :
                << grad(hash, One, Zero, Zero),
                   grad(hash, Zero, One, Zero),
                   grad(hash, Zero, Zero, One) >>
                = << R(GradVectors[(hash % 16) + 1][1]),
                     R(GradVectors[(hash % 16) + 1][2]),
                     R(GradVectors[(hash % 16) + 1][3]) >>
          /\ Cardinality({ << grad(h, One, Zero, Zero),
                              grad(h, Zero, One, Zero),
                              grad(h, Zero, Zero, One) >> : h \in 0..15 }) = 12

\* C10 witness: an octave has been evaluated off the lattice whose corners
\* include a hash above 15 whose low four bits are 12 or 14.
C10_Witness ==
    \E t \in Evaluating :
        /\ ~IsInt(frame[t].kernel.at[1])
        /\ ~IsInt(frame[t].kernel.at[2])
        /\ \E c \in 1..8 :
              /\ frame[t].kernel.corners[c].hash > 15
              /\ frame[t].kernel.corners[c].hash % 16 \in {12, 14}

====
